---- MODULE Spec2Model ----
(***************************************************************************)
(* clipmail_raycast.py: one run reads the configuration, reads the         *)
(* clipboard, authenticates against Gmail, composes and sends one mail and *)
(* appends an audit record to a dated log file in a git repository.        *)
(*                                                                         *)
(* Strings are sequences of one-character strings.  An Optional value is a *)
(* sequence of length at most one: None is <<>>, a value x is <<x>>.       *)
(***************************************************************************)
EXTENDS Integers, Sequences, FiniteSets, TLC

\* ------------------------------------------------------------------ bounds
MaxFileRepLen == 3      \* longest "pbpaste -Prefer file" output drawn
MaxTextLen == 2         \* longest "pbpaste -Prefer txt" output drawn
MaxCalls == 2           \* calls of log_and_git_commit on one repository
MaxClock == 2           \* last value of the wall clock
DayLen == 2             \* clock ticks per calendar day

\* ------------------------------------------------------- program constants
PreviewLen == 200       \* message_text[:200]

None == <<>>
Some(x) == <<x>>

Fields == <<"credentials_file", "token_file", "recipient_emails", "git_repo_path">>
FieldSet == {Fields[i] : i \in 1..Len(Fields)}
FieldVals == {<<>>, <<"x">>}
\* every JSON object over the four keys: a key is absent, "" or "x"
Configs == UNION {[D -> FieldVals] : D \in SUBSET FieldSet}
NoConfig == [k \in {} |-> <<>>]

FileGreeting == <<"F">>     \* "Hi Mark, here is the file that you have sent to ClipMail."
TextPrefix == <<"T">>       \* "Hi Mark, Below is the text that you sent to ClipMail.\n\n"

Whitespace == {" ", "\n"}
FileChars == {"a", "b", " ", "\n"}
TextChars == {"h", " "}
\* the files that may exist on disk; one name ends in a space
Paths == {<<"a">>, <<"b">>, <<"a", " ">>}
QueryFailed == <<"!">>      \* subprocess.run(["pbpaste", ...]) raised

StrsUpTo(chars, n) == UNION {[1..k -> chars] : k \in 0..n}
FileReps == StrsUpTo(FileChars, MaxFileRepLen)
TextReps == StrsUpTo(TextChars, MaxTextLen)

\* ------------------------------------------------------------ str methods
RECURSIVE LStrip(_)
LStrip(s) == IF s # <<>> /\ Head(s) \in Whitespace THEN LStrip(Tail(s)) ELSE s

RECURSIVE RStrip(_)
RStrip(s) ==
    IF s # <<>> /\ s[Len(s)] \in Whitespace THEN RStrip(SubSeq(s, 1, Len(s) - 1)) ELSE s

\* str.strip()
Strip(s) == RStrip(LStrip(s))

\* the position of the first "\n" of s, or 0
RECURSIVE FirstNewline(_, _)
FirstNewline(s, i) ==
    IF i > Len(s) THEN 0 ELSE IF s[i] = "\n" THEN i ELSE FirstNewline(s, i + 1)

\* str.split('\n')
RECURSIVE Split(_)
Split(s) ==
    LET i == FirstNewline(s, 1)
    IN  IF i = 0 THEN <<s>>
        ELSE <<SubSeq(s, 1, i - 1)>> \o Split(SubSeq(s, i + 1, Len(s)))

\* s[:n]
Take(s, n) == SubSeq(s, 1, IF Len(s) < n THEN Len(s) ELSE n)

\* --------------------------------------------------- get_clipboard_content
\* the for loop over files: the first entry that, stripped, is non-empty and exists
RECURSIVE FirstExistingBug(_, _)
FirstExistingBug(files, onDisk) ==
    IF files = <<>> THEN None
    ELSE LET rest == FirstExistingBug(Tail(files), onDisk)
             file == Strip(Head(files))
         IN  IF rest # None THEN rest
             ELSE IF file # <<>> /\ file \in onDisk THEN Some(file) ELSE None

RECURSIVE FirstExisting(_, _)
FirstExisting(files, onDisk) ==
    IF files = <<>> THEN None
    ELSE LET file == Strip(Head(files))
         IN  IF file # <<>> /\ file \in onDisk THEN Some(file)
             ELSE FirstExisting(Tail(files), onDisk)

\* (message_text, attachment_path) for the two pbpaste outputs and the disk
get_clipboard_content(fileOut, textOut, onDisk) ==
    IF fileOut = QueryFailed THEN <<None, None>>
    ELSE
        LET file_path == Strip(fileOut)
            found == IF file_path # <<>> THEN FirstExisting(Split(file_path), onDisk)
                     ELSE None
        IN  IF found # None THEN <<Some(FileGreeting), found>>
            ELSE IF textOut = QueryFailed THEN <<None, None>>
            ELSE LET text_content == Strip(textOut)
                 IN  IF text_content # <<>>
                     THEN <<Some(TextPrefix \o text_content), None>>
                     ELSE <<None, None>>

\* --------------------------------------------------------- validate_config
\* config.get(k) is truthy
Truthy(config, k) == k \in DOMAIN config /\ config[k] # <<>>

validate_configBug(config) ==
    LET missing == {i \in 1..Len(Fields) : ~Truthy(config, Fields[i])}
    IN  IF missing = {} THEN [ok |-> TRUE, printed |-> <<>>]
        ELSE [ok |-> FALSE,
              printed |-> <<Fields[CHOOSE i \in missing : \A j \in missing : j <= i]>>]

\* the result and the fields named in the printed errors
validate_config(config) ==
    IF ~Truthy(config, "credentials_file")
    THEN [ok |-> FALSE, printed |-> <<"credentials_file">>]
    ELSE IF ~Truthy(config, "token_file")
    THEN [ok |-> FALSE, printed |-> <<"token_file">>]
    ELSE IF ~Truthy(config, "recipient_emails")
    THEN [ok |-> FALSE, printed |-> <<"recipient_emails">>]
    ELSE IF ~Truthy(config, "git_repo_path")
    THEN [ok |-> FALSE, printed |-> <<"git_repo_path">>]
    ELSE [ok |-> TRUE, printed |-> <<>>]

\* ------------------------------------------------------------------- state
VARIABLES
    pc,               \* position of the process in main
    clipFile,         \* output of pbpaste -Prefer file
    clipText,         \* output of pbpaste -Prefer txt
    disk,             \* the attachment candidates that exist
    configExists,     \* ~/.clipmail_config.json exists
    configFile,       \* its content
    credentialsExists,\* the OAuth client secrets file exists
    tokenFile,        \* Optional: the credentials stored in token_file
    logs,             \* day -> content of sent_email_log_<day>.txt, a sequence of records
    clock,            \* datetime.now()
    git,              \* [staged, commits, pushed] of the log repository
    cwd,              \* os.getcwd()
    config,           \* main: Optional config
    validation,       \* Optional: what validate_config(config) returned and printed
    message_text,     \* main: Optional message_text
    attachment_path,  \* main: Optional attachment_path
    creds,            \* authenticate_gmail: Optional creds
    auth,             \* what authenticate_gmail did in this run
    send,             \* what send_email did in this run
    lgc               \* locals and history of log_and_git_commit in this run

envVars == <<clipFile, clipText, disk, configExists, configFile, credentialsExists,
             tokenFile, logs, clock, git, cwd>>
runVars == <<pc, config, validation, message_text,
             attachment_path, creds, auth, send, lgc>>
vars == <<envVars, runVars>>

Dirs == {"launch", "repo"}
Days == 0..(MaxClock \div DayLen)

NoAuth == [called |-> FALSE, refresh |-> "no", flows |-> 0, returned |-> FALSE]
NoSend == [calls |-> 0, accepted |-> FALSE, attached |-> FALSE, missingAtCheck |-> FALSE,
           result |-> "none"]
NoLgc == [calls |-> 0, writes |-> 0, now |-> 0, original_dir |-> "launch",
          cwdAtCall |-> "launch", pending |-> "none", chdirFailed |-> FALSE,
          failedStep |-> "none", failure |-> "none", restoreFailed |-> FALSE,
          returned |-> FALSE, escaped |-> FALSE]

TokenStates == [token : BOOLEAN, expired : BOOLEAN, refresh_token : BOOLEAN, gen : {0}]

Init ==
    /\ pc = "idle"
    /\ clipFile = <<>> /\ clipText = <<>>
    /\ disk = Paths
    /\ configExists \in BOOLEAN
    /\ configFile \in Configs
    /\ (~configExists => configFile = NoConfig)
    /\ credentialsExists \in BOOLEAN
    /\ tokenFile \in {None} \cup {Some(t) : t \in TokenStates}
    /\ logs = [d \in Days |-> <<>>]
    /\ clock = 0
    /\ git = [staged |-> FALSE, commits |-> 0, pushed |-> 0]
    /\ cwd = "launch"
    /\ config = None /\ validation = None
    /\ message_text = None /\ attachment_path = None
    /\ creds = None /\ auth = NoAuth /\ send = NoSend /\ lgc = NoLgc

\* --------------------------------------------------------------- exceptions
\* "CalledProcessError", "OSError" and "Error" are subclasses of Exception;
\* "SystemExit" (sys.exit) is not.
IsException(e) == e \in {"CalledProcessError", "OSError", "Error"}

\* except subprocess.CalledProcessError around git push
PushCatches(e) == e = "CalledProcessError"
\* except subprocess.CalledProcessError around the git commands
InnerCatches(e) == e = "CalledProcessError"
\* except Exception of log_and_git_commit
LgcCatchesBug(e) == e = "CalledProcessError"
LgcCatches(e) == IsException(e)
\* except Exception of send_email
SendCatches(e) == IsException(e)
\* except Exception of main
MainCatches(e) == IsException(e)

\* where main is after e was raised in its try block: "failed" after its except
\* Exception printed e, "exited" when e ended the process
AfterMainRaise(e) == IF MainCatches(e) THEN "failed" ELSE "exited"

\* send_email after e was raised inside its try block: return False, or propagate
SendRaise(s, e) ==
    IF SendCatches(e)
    THEN /\ send' = [s EXCEPT !.result = "False"]
         /\ pc' = "done"
    ELSE /\ send' = s
         /\ pc' = AfterMainRaise(e)

\* ------------------------------------------------------------ environment
\* time passes before log_and_git_commit reads the clock
Tick ==
    /\ pc = "lgc"
    /\ clock < MaxClock
    /\ clock' = clock + 1
    /\ UNCHANGED <<clipFile, clipText, disk, configExists, configFile, credentialsExists,
                   tokenFile, logs, git, cwd, runVars>>

\* a file is removed from the disk while the script runs
RemoveFile ==
    /\ pc \in {"clipboard", "send", "compose", "attach"}
    /\ \E p \in disk : disk' = disk \ {p}
    /\ UNCHANGED <<clipFile, clipText, configExists, configFile, credentialsExists,
                   tokenFile, logs, clock, git, cwd, runVars>>

\* -------------------------------------------------------------------- main
\* the script is started in some directory
StartProcess ==
    /\ pc = "idle"
    /\ pc' = "main"
    /\ cwd' \in Dirs
    /\ UNCHANGED <<clipFile, clipText, disk, configExists, configFile, credentialsExists,
                   tokenFile, logs, clock, git, config, validation, message_text,
                   attachment_path, creds, auth, send, lgc>>

\* restart_with_venv(): "proceed" when the imports succeeded, at once or in the
\* process os.execv started; "exit" for sys.exit(1) in setup_environment or after
\* the restart; "raise" when creating the venv raised CalledProcessError
RestartOutcome(importsOk, setup, importsAfterRestart, setupAfterRestart) ==
    IF importsOk THEN "proceed"
    ELSE IF setup # "ok" THEN setup
    ELSE IF importsAfterRestart THEN "proceed"
    ELSE IF setupAfterRestart # "ok" THEN setupAfterRestart
    ELSE "exit"

RestartWithVenv ==
    /\ pc = "main"
    /\ \E importsOk \in BOOLEAN, setup \in {"ok", "exit", "raise"},
          importsAfterRestart \in BOOLEAN, setupAfterRestart \in {"ok", "exit", "raise"} :
         LET o == RestartOutcome(importsOk, setup, importsAfterRestart, setupAfterRestart)
         IN  pc' = CASE o = "proceed" -> "config"
                     [] o = "exit" -> AfterMainRaise("SystemExit")
                     [] OTHER -> AfterMainRaise("CalledProcessError")
    /\ UNCHANGED <<envVars, config, validation, message_text, attachment_path, creds,
                   auth, send, lgc>>

\* main: the configuration is created from the prompts, or loaded, and validated
LoadConfig ==
    /\ pc = "config"
    /\ IF ~configExists
       THEN \E c \in Configs, saved \in BOOLEAN :
              LET v == validate_config(c)
              IN  /\ (\A k \in FieldSet : k \in DOMAIN c)   \* input() gives every key
                  /\ config' = Some(c)
                  /\ validation' = Some(v)
                  /\ IF ~v.ok THEN pc' = "done" /\ UNCHANGED <<configExists, configFile>>
                     ELSE IF saved
                     THEN pc' = "clipboard" /\ configExists' = TRUE /\ configFile' = c
                     ELSE pc' = AfterMainRaise("OSError")
                          /\ UNCHANGED <<configExists, configFile>>
       ELSE \E loaded \in BOOLEAN :
              IF ~loaded
              THEN pc' = AfterMainRaise("Error")
                   /\ UNCHANGED <<config, validation, configExists, configFile>>
              ELSE LET v == validate_config(configFile)
                   IN  /\ config' = Some(configFile)
                       /\ validation' = Some(v)
                       /\ pc' = IF v.ok THEN "clipboard" ELSE "done"
                       /\ UNCHANGED <<configExists, configFile>>
    /\ UNCHANGED <<clipFile, clipText, disk, credentialsExists, tokenFile, logs, clock, git,
                   cwd, message_text, attachment_path, creds, auth, send, lgc>>

\* if not message_text and not attachment_path
IsEmptyClipboardBug(mt, ap) == FALSE
IsEmptyClipboard(mt, ap) == mt = None /\ ap = None

\* main: get_clipboard_content() and the empty check
GetClipboard ==
    /\ pc = "clipboard"
    /\ \E f \in FileReps \cup {QueryFailed}, t \in TextReps \cup {QueryFailed} :
          LET r == get_clipboard_content(f, t, disk)
          IN  /\ message_text' = r[1]
              /\ attachment_path' = r[2]
              /\ pc' = IF IsEmptyClipboard(r[1], r[2]) THEN "done" ELSE "send"
    /\ UNCHANGED <<envVars, config, validation, creds, auth, send, lgc>>

\* -------------------------------------------------------- authenticate_gmail
Valid(c) == c.token /\ ~c.expired

\* creds.refresh(Request()): a fresh access token, in memory
Refreshed(c) == [c EXCEPT !.token = TRUE, !.expired = FALSE, !.gen = c.gen + 1]

\* the credentials the interactive flow returns
FlowCreds(old) ==
    [token |-> TRUE, expired |-> FALSE, refresh_token |-> TRUE,
     gen |-> IF old = None THEN 1 ELSE old[1].gen + 1]

\* if not creds or not creds.valid
NeedAuth(loaded) == IF loaded = None THEN TRUE ELSE ~Valid(loaded[1])
\* if creds and creds.expired and creds.refresh_token
CanRefresh(loaded) ==
    IF loaded = None THEN FALSE ELSE loaded[1].expired /\ loaded[1].refresh_token

AuthOutcomes ==
    {"ok", "makedirs_fail", "load_fail", "refresh_fail", "flow_fail", "write_fail",
     "build_fail"}

\* send_email: service = authenticate_gmail(...).  Every exception is printed and
\* re-raised into send_email; sys.exit(1) leaves the process.
Authenticate ==
    /\ pc = "send"
    /\ \E o \in AuthOutcomes :
         LET loaded == IF o = "load_fail" THEN None ELSE tokenFile
             needAuth == NeedAuth(loaded)
             canRefresh == CanRefresh(loaded)
         IN
         /\ o = "load_fail" => tokenFile # None
         /\ o = "refresh_fail" => needAuth /\ canRefresh
         /\ o \in {"flow_fail", "write_fail"} =>
                needAuth /\ ~canRefresh /\ credentialsExists
         /\ o \in {"ok", "build_fail"} => (needAuth /\ ~canRefresh => credentialsExists)
         /\ CASE o \in {"makedirs_fail", "load_fail"} ->
                   /\ auth' = [auth EXCEPT !.called = TRUE]
                   /\ SendRaise(send, IF o = "load_fail" THEN "Error" ELSE "OSError")
                   /\ UNCHANGED <<creds, tokenFile>>
              [] o = "refresh_fail" ->
                   /\ auth' = [auth EXCEPT !.called = TRUE, !.refresh = "failed"]
                   /\ creds' = loaded
                   /\ SendRaise(send, "Error")
                   /\ UNCHANGED tokenFile
              [] o = "flow_fail" ->
                   /\ auth' = [auth EXCEPT !.called = TRUE, !.flows = @ + 1]
                   /\ creds' = loaded
                   /\ SendRaise(send, "Error")
                   /\ UNCHANGED tokenFile
              [] o = "write_fail" ->
                   /\ auth' = [auth EXCEPT !.called = TRUE, !.flows = @ + 1]
                   /\ creds' = Some(FlowCreds(loaded))
                   /\ SendRaise(send, "OSError")
                   /\ UNCHANGED tokenFile
              [] OTHER ->
                   /\ IF ~needAuth
                      THEN /\ creds' = loaded
                           /\ auth' = [auth EXCEPT !.called = TRUE,
                                                   !.returned = (o = "ok")]
                           /\ UNCHANGED tokenFile
                      ELSE IF canRefresh
                      THEN /\ creds' = Some(Refreshed(loaded[1]))
                           /\ auth' = [auth EXCEPT !.called = TRUE, !.refresh = "ok",
                                                   !.returned = (o = "ok")]
                           /\ UNCHANGED tokenFile
                      ELSE /\ creds' = Some(FlowCreds(loaded))
                           /\ tokenFile' = Some(FlowCreds(loaded))
                           /\ auth' = [auth EXCEPT !.called = TRUE, !.flows = @ + 1,
                                                   !.returned = (o = "ok")]
                   /\ IF o = "ok" THEN pc' = "compose" /\ send' = send
                      ELSE SendRaise(send, "Error")
    /\ UNCHANGED <<clipFile, clipText, disk, configExists, configFile, credentialsExists,
                   logs, clock, git, cwd, config, validation,
                   message_text, attachment_path, lgc>>

\* authenticate_gmail finds no client secrets file: sys.exit(1)
AuthenticateExit ==
    /\ pc = "send"
    /\ NeedAuth(tokenFile)
    /\ ~CanRefresh(tokenFile)
    /\ ~credentialsExists
    /\ creds' = tokenFile
    /\ auth' = [auth EXCEPT !.called = TRUE]
    /\ SendRaise(send, "SystemExit")
    /\ UNCHANGED <<envVars, config, validation, message_text,
                   attachment_path, lgc>>

\* ---------------------------------------------------------------- send_email
\* "if attachment_path:" and "if not os.path.exists(attachment_path): return False"
ComposeCheckNextBug(ap, onDisk) == "transmit"
ComposeCheckNext(ap, onDisk) ==
    IF ap = None THEN "transmit"
    ELSE IF ap[1] \notin onDisk THEN "return_false"
    ELSE "attach"

ComposeCheck ==
    /\ pc = "compose"
    /\ LET next == ComposeCheckNext(attachment_path, disk)
       IN  /\ pc' = IF next = "return_false" THEN "done" ELSE next
           /\ send' = [send EXCEPT
                         !.missingAtCheck =
                             attachment_path # None /\ attachment_path[1] \notin disk,
                         !.result = IF next = "return_false" THEN "False" ELSE @]
    /\ UNCHANGED <<envVars, config, validation, message_text,
                   attachment_path, creds, auth, lgc>>

\* open(attachment_path, "rb") ... message.attach(attachment); an exception
\* returns False
ComposeAttach ==
    /\ pc = "attach"
    /\ \E readable \in BOOLEAN :
         IF attachment_path[1] \in disk /\ readable
         THEN pc' = "transmit" /\ send' = [send EXCEPT !.attached = TRUE]
         ELSE pc' = "done" /\ send' = [send EXCEPT !.result = "False"]
    /\ UNCHANGED <<envVars, config, validation, message_text,
                   attachment_path, creds, auth, lgc>>

\* where send_email goes after service...send(...).execute()
TransmitNextBug(o) == "lgc"
TransmitNext(o) == IF o = "accepted" THEN "lgc" ELSE "raise"

\* service.users().messages().send(userId="me", body=...).execute()
Transmit ==
    /\ pc = "transmit"
    /\ \E o \in {"accepted", "rejected"} :
         LET s == [send EXCEPT !.calls = @ + 1, !.accepted = (o = "accepted")]
         IN  IF TransmitNext(o) = "raise" THEN SendRaise(s, "Error")
             ELSE send' = s /\ pc' = "lgc"
    /\ UNCHANGED <<envVars, config, validation, message_text,
                   attachment_path, creds, auth, lgc>>

\* -------------------------------------------------------- log_and_git_commit
\* now.strftime("%Y-%m-%d")
DateStr(now) == now \div DayLen

\* f"[{now.isoformat()}] Email sent to {recipients}\n{message_text[:200]}\n\n"
Record(now, recipients, text) == <<now, recipients, Take(text, PreviewLen)>>

\* with open(log_file, "a") as log: log.write(record)
WriteLogBug(content, record) == <<record>>
WriteLog(content, record) == Append(content, record)

\* finally: os.chdir(original_dir)
RestoreDirBug(original_dir, current) == current
RestoreDir(original_dir, current) == original_dir

\* log_and_git_commit is left with exception e pending ("none": no exception):
\* its except Exception prints e and returns; send_email then returns True
LgcFinish(l, e) ==
    IF e = "none" \/ LgcCatches(e)
    THEN /\ lgc' = [l EXCEPT !.returned = TRUE, !.pending = "none"]
         /\ send' = [send EXCEPT !.result = "True"]
         /\ pc' = "done"
    ELSE /\ lgc' = [l EXCEPT !.escaped = TRUE, !.pending = e]
         /\ SendRaise(send, e)

\* lines 223-234: the log directory is created and the record appended
LgcWriteLog ==
    /\ pc = "lgc"
    /\ \E o \in {"ok", "mkdir_fail", "write_fail"} :
         LET l == [lgc EXCEPT !.calls = @ + 1, !.now = clock, !.cwdAtCall = cwd]
             record == Record(clock, config[1]["recipient_emails"], message_text[1])
         IN  IF o = "ok"
             THEN /\ logs' = [logs EXCEPT ![DateStr(clock)] = WriteLog(@, record)]
                  /\ lgc' = [l EXCEPT !.writes = @ + 1]
                  /\ pc' = "lgc_chdir"
                  /\ send' = send
             ELSE /\ LgcFinish([l EXCEPT !.failedStep = o, !.failure = "OSError"], "OSError")
                  /\ logs' = logs
    /\ UNCHANGED <<clipFile, clipText, disk, configExists, configFile, credentialsExists,
                   tokenFile, clock, git, cwd, config, validation,
                   message_text, attachment_path, creds, auth>>

GitSteps == <<"revparse", "add", "commit", "push">>
GitPc(i) == IF i > Len(GitSteps) THEN "lgc_finally" ELSE GitSteps[i]

\* lines 237-238: original_dir = os.getcwd(); os.chdir(str(git_repo))
LgcChdir ==
    /\ pc = "lgc_chdir"
    /\ \E ok \in BOOLEAN :
         IF ok
         THEN /\ lgc' = [lgc EXCEPT !.original_dir = cwd]
              /\ cwd' = "repo"
              /\ pc' = GitPc(1)
              /\ send' = send
         ELSE /\ LgcFinish([lgc EXCEPT !.chdirFailed = TRUE, !.failedStep = "chdir",
                                       !.failure = "OSError"], "OSError")
              /\ cwd' = cwd
    /\ UNCHANGED <<clipFile, clipText, disk, configExists, configFile, credentialsExists,
                   tokenFile, logs, clock, git, config, validation,
                   message_text, attachment_path, creds, auth>>

\* what the repository is after a successful git command
GitEffect(step, g) ==
    CASE step = "add" -> [g EXCEPT !.staged = TRUE]
      [] step = "commit" -> [g EXCEPT !.staged = FALSE, !.commits = @ + 1]
      [] step = "push" -> [g EXCEPT !.pushed = g.commits]
      [] OTHER -> g

\* the exception left pending when git command `step` raises e
GitPending(step, e) ==
    IF step = "push" /\ PushCatches(e) THEN "none"
    ELSE IF InnerCatches(e) THEN "none"
    ELSE e

\* lines 242-256: subprocess.run(["git", ...], check=True) for the i-th command.
\* CalledProcessError: the command failed; OSError: git could not be started.
GitStep(i) ==
    /\ pc = GitSteps[i]
    /\ \E o \in {"ok", "CalledProcessError", "OSError"} :
         IF o = "ok"
         THEN /\ git' = GitEffect(GitSteps[i], git)
              /\ pc' = GitPc(i + 1)
              /\ lgc' = lgc
         ELSE /\ git' = git
              /\ pc' = "lgc_finally"
              /\ lgc' = [lgc EXCEPT !.failedStep = GitSteps[i], !.failure = o,
                                    !.pending = GitPending(GitSteps[i], o)]
    /\ UNCHANGED <<clipFile, clipText, disk, configExists, configFile, credentialsExists,
                   tokenFile, logs, clock, cwd, config, validation,
                   message_text, attachment_path, creds, auth, send>>

\* lines 257-264: finally: os.chdir(original_dir), then the outer except
LgcRestore ==
    /\ pc = "lgc_finally"
    /\ \E ok \in BOOLEAN :
         IF ok
         THEN /\ cwd' = RestoreDir(lgc.original_dir, cwd)
              /\ LgcFinish(lgc, lgc.pending)
         ELSE /\ cwd' = cwd
              /\ LgcFinish([lgc EXCEPT !.restoreFailed = TRUE], "OSError")
    /\ UNCHANGED <<clipFile, clipText, disk, configExists, configFile, credentialsExists,
                   tokenFile, logs, clock, git, config, validation,
                   message_text, attachment_path, creds, auth>>

\* --------------------------------------------------------- specifications
Next ==
    \/ StartProcess
    \/ RestartWithVenv
    \/ LoadConfig
    \/ GetClipboard
    \/ Authenticate
    \/ AuthenticateExit
    \/ ComposeCheck
    \/ ComposeAttach
    \/ Transmit
    \/ LgcWriteLog
    \/ LgcChdir
    \/ GitStep(1)
    \/ GitStep(2)
    \/ GitStep(3)
    \/ GitStep(4)
    \/ LgcRestore
    \/ Tick
    \/ RemoveFile

Spec == Init /\ [][Next]_vars

\* get_clipboard_content on every clipboard and disk within the bounds
AllSet == [k \in FieldSet |-> <<"x">>]

InitClipboard ==
    /\ pc = "clipboard"
    /\ clipFile \in FileReps \cup {QueryFailed}
    /\ clipText \in TextReps \cup {QueryFailed}
    /\ disk \in SUBSET Paths
    /\ configExists = TRUE /\ configFile = AllSet /\ config = Some(AllSet)
    /\ credentialsExists = TRUE
    /\ tokenFile = None
    /\ logs = [d \in Days |-> <<>>]
    /\ clock = 0
    /\ git = [staged |-> FALSE, commits |-> 0, pushed |-> 0]
    /\ cwd = "launch"
    /\ validation = Some(validate_config(AllSet))
    /\ message_text = None /\ attachment_path = None
    /\ creds = None /\ auth = NoAuth /\ send = NoSend /\ lgc = NoLgc

\* main: get_clipboard_content() on the clipboard as it is
ReadClipboard ==
    /\ pc = "clipboard"
    /\ LET r == get_clipboard_content(clipFile, clipText, disk)
       IN  /\ message_text' = r[1]
           /\ attachment_path' = r[2]
           /\ pc' = IF IsEmptyClipboard(r[1], r[2]) THEN "done" ELSE "send"
    /\ UNCHANGED <<envVars, config, validation, creds, auth, send, lgc>>

SpecClipboard == InitClipboard /\ [][ReadClipboard]_vars

\* log_and_git_commit called again and again on one repository
InitLogger ==
    /\ pc = "idle"
    /\ clipFile = <<>> /\ clipText = <<>>
    /\ disk = Paths
    /\ configExists = TRUE /\ configFile = AllSet /\ config = Some(AllSet)
    /\ credentialsExists = TRUE
    /\ tokenFile = None
    /\ logs = [d \in Days |-> <<>>]
    /\ clock = 0
    /\ git = [staged |-> FALSE, commits |-> 0, pushed |-> 0]
    /\ cwd \in Dirs
    /\ validation = Some(validate_config(AllSet))
    /\ message_text = None /\ attachment_path = None
    /\ creds = None /\ auth = NoAuth /\ send = NoSend /\ lgc = NoLgc

\* send_email reaches line 211 at some later time, with some message text
CallLogger ==
    /\ pc \in {"idle", "done"}
    /\ lgc.calls < MaxCalls
    /\ \E t \in clock..MaxClock : clock' = t
    /\ \E text \in TextReps :
         /\ Strip(text) # <<>>
         /\ message_text' = Some(TextPrefix \o Strip(text))
    /\ lgc' = [NoLgc EXCEPT !.calls = lgc.calls, !.writes = lgc.writes]
    /\ pc' = "lgc"
    /\ UNCHANGED <<clipFile, clipText, disk, configExists, configFile, credentialsExists,
                   tokenFile, logs, git, cwd, config, validation, attachment_path, creds, auth,
                   send>>

NextLogger ==
    \/ CallLogger
    \/ LgcWriteLog
    \/ LgcChdir
    \/ GitStep(1)
    \/ GitStep(2)
    \/ GitStep(3)
    \/ GitStep(4)
    \/ LgcRestore

SpecLogger == InitLogger /\ [][NextLogger]_vars

\* =================================================================== claims
NoRecord == \A d \in Days : logs[d] = <<>>
GitUntouched == git = [staged |-> FALSE, commits |-> 0, pushed |-> 0]

\* C1: when send_email finds that the attachment it was given does not exist, it
\* returns False, the provider's send is never called and no audit record is
\* written; the provider's send is only ever called with a given attachment
\* attached.
C1_MissingAttachmentFails ==
    /\ send.missingAtCheck =>
           /\ pc = "done"
           /\ send.result = "False"
           /\ send.calls = 0
           /\ lgc.calls = 0 /\ lgc.writes = 0 /\ NoRecord
    /\ (attachment_path # None /\ send.calls > 0) =>
           (send.attached /\ ~send.missingAtCheck)

\* the attachment was on disk when the clipboard was read and gone at the check
C1_Witness ==
    /\ send.missingAtCheck
    /\ attachment_path # None
    /\ auth.returned
    /\ send.result = "False"

\* C2: once the provider accepted the send, no exception leaves
\* log_and_git_commit whatever step of it fails, and send_email returns True.
C2_AuditFailureKeepsSuccess ==
    send.accepted =>
        /\ ~lgc.escaped
        /\ pc \notin {"failed", "exited"}
        /\ pc = "done" => send.result = "True" /\ lgc.returned

\* git push could not reach the remote and the run still reports the mail as sent
C2_Witness ==
    /\ send.accepted
    /\ lgc.failedStep = "push" /\ lgc.failure = "CalledProcessError"
    /\ pc = "done"
    /\ send.result = "True"

C4_RefreshedTokenPersisted ==
    (auth.returned /\ auth.refresh = "ok") => tokenFile = creds

\* C5: when the refresh of the cached token fails, the interactive flow is run and
\* the run does not end as a failed send on that account.
C5_RefreshFailureFallsBack ==
    auth.refresh = "failed" => (auth.flows > 0 /\ send.result # "False")

\* C6: validate_config accepts exactly the configurations whose four fields are
\* all present and non-empty, and otherwise reports the first missing field in
\* the order credentials_file, token_file, recipient_emails, git_repo_path, and
\* only that one.
C6_ValidateConfig ==
    validation # None =>
        LET c == config[1]
            missing == {i \in 1..Len(Fields) :
                           Fields[i] \notin DOMAIN c \/ Len(c[Fields[i]]) = 0}
        IN  /\ validation[1].ok <=> missing = {}
            /\ missing = {} => validation[1].printed = <<>>
            /\ missing # {} =>
                   \E i \in missing :
                       /\ \A j \in missing : i <= j
                       /\ validation[1].printed = <<Fields[i]>>

\* two fields are missing and the earlier one is reported
C6_Witness ==
    /\ validation # None
    /\ "token_file" \notin DOMAIN config[1]
    /\ "git_repo_path" \in DOMAIN config[1] /\ config[1]["git_repo_path"] = <<>>
    /\ validation[1] = [ok |-> FALSE, printed |-> <<"token_file">>]

\* C9: authentication, the provider's send and the audit record happen only in a
\* run whose configuration was validated and whose clipboard gave content.
C9_NothingWithoutConfigAndContent ==
    (auth.called \/ send.calls > 0 \/ lgc.calls > 0 \/ ~NoRecord) =>
        /\ validation # None /\ validation[1].ok
        /\ message_text # None \/ attachment_path # None

\* a valid configuration and an empty clipboard: main returned without authenticating
C9_Witness ==
    /\ pc = "done"
    /\ validation # None /\ validation[1].ok
    /\ message_text = None /\ attachment_path = None
    /\ ~auth.called /\ send.calls = 0 /\ NoRecord

\* C10: the audit logger runs, and the repository changes, only after the
\* provider accepted the send of this run; a run calls the provider's send at
\* most once and writes at most one record.
C10_AuditOnlyAfterAcceptedSend ==
    /\ (lgc.calls > 0 \/ ~NoRecord \/ ~GitUntouched) =>
           (auth.returned /\ send.accepted /\ send.calls = 1)
    /\ send.calls <= 1
    /\ lgc.calls <= 1
    /\ \A d \in Days : Len(logs[d]) <= 1
    /\ \A d, e \in Days : (logs[d] # <<>> /\ logs[e] # <<>>) => d = e

\* the provider rejected the send: the run failed and nothing was logged
C10_Witness ==
    /\ pc = "done"
    /\ send.calls = 1 /\ ~send.accepted
    /\ send.result = "False"
    /\ lgc.calls = 0 /\ NoRecord /\ GitUntouched

\* the least element of a non-empty set of numbers
Least(S) == CHOOSE i \in S : \A j \in S : i <= j

\* both pbpaste queries gave an output and get_clipboard_content has returned
ClipboardRead == pc # "clipboard" /\ clipFile # QueryFailed /\ clipText # QueryFailed

\* C7 as stated: the entries of the file-path representation and the text are
\* taken as they are on the clipboard.
C7_ClipboardPriorityAsStated ==
    ClipboardRead =>
        LET entries == Split(clipFile)
            existing == {i \in 1..Len(entries) : entries[i] \in disk}
        IN  IF existing # {}
            THEN /\ message_text = Some(FileGreeting)
                 /\ attachment_path = Some(entries[Least(existing)])
            ELSE IF clipText # <<>>
            THEN /\ message_text = Some(TextPrefix \o clipText)
                 /\ attachment_path = None
            ELSE message_text = None /\ attachment_path = None

\* C7: the priority holds of the clipboard with surrounding whitespace stripped:
\* if some newline-separated entry of the file-path representation, stripped, is
\* non-empty and exists on disk, the result is the file greeting with the earliest
\* such entry; otherwise, if the stripped text is non-empty, it is the text prefix
\* followed by the stripped text, with no attachment; otherwise (None, None).
C7_ClipboardPriority ==
    ClipboardRead =>
        LET raw == Split(clipFile)
            entries == [i \in 1..Len(raw) |-> Strip(raw[i])]
            existing == {i \in 1..Len(entries) : entries[i] # <<>> /\ entries[i] \in disk}
            text == Strip(clipText)
        IN  IF existing # {}
            THEN /\ message_text = Some(FileGreeting)
                 /\ attachment_path = Some(entries[Least(existing)])
            ELSE IF text # <<>>
            THEN /\ message_text = Some(TextPrefix \o text)
                 /\ attachment_path = None
            ELSE message_text = None /\ attachment_path = None

\* two candidate paths of which only the second exists: the second is attached
C7_Witness ==
    /\ pc = "send"
    /\ clipFile = <<"a", "\n", "b">>
    /\ disk = {<<"b">>}
    /\ message_text = Some(FileGreeting)
    /\ attachment_path = Some(<<"b">>)

\* C8: a call of log_and_git_commit whose log write succeeds adds exactly one
\* record, its own, at the end of the file of its day, and no step changes any
\* other content of any log file.
C8_AppendOnly ==
    [][IF lgc'.writes = lgc.writes
       THEN logs' = logs
       ELSE /\ lgc'.writes = lgc.writes + 1
            /\ LET d == DateStr(clock)
                   record == Record(clock, config[1]["recipient_emails"], message_text[1])
               IN  /\ Len(logs'[d]) = Len(logs[d]) + 1
                   /\ SubSeq(logs'[d], 1, Len(logs[d])) = logs[d]
                   /\ logs'[d][Len(logs'[d])] = record
                   /\ \A e \in Days \ {d} : logs'[e] = logs[e]]_vars

\* two calls on the same day left their two records in one file, in call order
C8_Witness ==
    /\ lgc.writes = 2
    /\ Len(logs[0]) = 2
    /\ logs[0][1][1] = 0
    /\ logs[0][2][1] = 1

====
